---- MODULE Spec2Model ----
(***************************************************************************)
(* Model of fama's log-file registry (src/index.js): the Fama class's      *)
(* addLog / writeLog / appendLog / appendLineLog / clearLog / removeLog    *)
(* and the overflow() engine with its asynchronous 'rewrite' rotation.     *)
(*                                                                         *)
(* Strings (paths, texts, file contents) are strings: Len is .length, \o    *)
(* is +, SubSeq(s, i, i) is the i-th character.  All characters are ASCII, *)
(* so text.length (UTF-16 units) and the byte size on disk coincide.       *)
(*                                                                         *)
(* The filesystem is a directory (path -> inode number) and a table of     *)
(* inodes (inode number -> content), so that the streams of a rotation     *)
(* keep reading and writing the file they opened while unlinkSync and      *)
(* linkSync rearrange the names.                                           *)
(***************************************************************************)
EXTENDS Integers, Sequences, FiniteSets, TLC

VARIABLES
    env,      \* the host (platform, what Node's writeFileSync does with missing
              \* data) and the maxLength and behaviour the caller registers logs with
    dir,      \* directory: path -> inode number
    inodes,   \* inode number -> content
    logs,     \* Fama.logs: sequence of LogFile descriptors
    rots,     \* rewrite rotations in flight (closures of overflow's 'rewrite' case)
    out,      \* what the last operation wrote to the console
    last,     \* the last operation and what it did (observer)
    calls,    \* registry calls that have returned so far
    crashed,  \* an exception escaped an event handler: the process is gone
    pc        \* what the main thread still has to do in the synchronous code it
              \* is running, and what that code will have done when it returns

vars == <<env, dir, inodes, logs, rots, out, last, calls, crashed, pc>>

----------------------------------------------------------------------------
(* Bounds                                                                  *)

MaxCalls == 2         \* registry calls in one run
MaxSharedCalls == 5   \* registry calls in one run of the shared-alias scenario
MaxSerialCalls == 4   \* registry calls in one run of the one-log scenarios
MaxRaceCalls == 3     \* registry calls in one run of the unserialised rewrite scenario
MaxChunkCalls == 2    \* registry calls in one run of the long-file scenario

\* fs.createReadStream(log.path) is given no options: the stream asks for, and
\* hands to one 'data' event, up to Node's default of 64 KiB
highWaterMark == 65536

NL == "\n"
NUL == "@"            \* stands for the zero byte a write past the end of a file
                      \* leaves in the hole

\* texts the callers pass
Texts == { "a", "a\n" }

\* texts writeLog is called with: also "a\naa", longer than every maxLength given
WriteTexts == Texts \cup { "a\naa" }

\* file arguments of addLog: 'l.t' and 'd/l'
FileArgs == { "l.t", "d/l" }

Aliases == { "x", "y" }

Undefined == <<>>     \* an argument left out
MaxLengthArgs == { Undefined, <<2>>, <<3>> }
BehaviourArgs ==
    { "undefined", "stop", "ignore", "ingore", "split", "rewrite", "continue", "300" }

\* content of the files present before the process starts: "a" and "a\na"
InitContents == { "a", "a\na" }

----------------------------------------------------------------------------
(* JavaScript string functions                                             *)

Min(a, b) == IF a < b THEN a ELSE b
Max(a, b) == IF a > b THEN a ELSE b

\* the i-th character of s, counted from 1
At(s, i) == SubSeq(s, i, i)

\* s.slice(from, to), both 0-based and already non-negative
Sub(s, from, to) ==
    IF from >= Min(to, Len(s)) THEN "" ELSE SubSeq(s, from + 1, Min(to, Len(s)))

\* String.prototype.slice(start, end): negative indexes count from the end
slice(s, start, end) ==
    LET n == Len(s)
        a == IF start < 0 THEN Max(n + start, 0) ELSE Min(start, n)
        b == IF end < 0 THEN Max(n + end, 0) ELSE Min(end, n)
    IN  Sub(s, a, b)

\* String.prototype.slice(start)
sliceFrom(s, start) == slice(s, start, Len(s))

\* String.prototype.lastIndexOf(c): 0-based, -1 when absent
lastIndexOf(s, c) ==
    LET hits == { i \in 1..Len(s) : At(s, i) = c }
    IN  IF hits = {} THEN -1 ELSE (CHOOSE i \in hits : \A j \in hits : j <= i) - 1

\* file.replace(/\//g, '\\')
RECURSIVE replaceSlashes(_)
replaceSlashes(file) ==
    IF file = "" THEN ""
    ELSE (IF At(file, 1) = "/" THEN "\\" ELSE At(file, 1))
            \o replaceSlashes(SubSeq(file, 2, Len(file)))

\* Number to its decimal digits
RECURSIVE toString(_)
toString(n) ==
    LET d == <<"0", "1", "2", "3", "4", "5", "6", "7", "8", "9">>
    IN  IF n < 10 THEN d[n + 1] ELSE toString(n \div 10) \o d[(n % 10) + 1]

\* text.split('\n')
RECURSIVE split(_)
split(text) ==
    LET nls == { i \in 1..Len(text) : At(text, i) = NL }
    IN  IF nls = {} THEN <<text>>
        ELSE LET k == CHOOSE i \in nls : \A j \in nls : i <= j
             IN  <<SubSeq(text, 1, k - 1)>> \o split(SubSeq(text, k + 1, Len(text)))

\* texts.join('\n')
RECURSIVE join(_)
join(texts) ==
    IF Len(texts) = 0 THEN ""
    ELSE IF Len(texts) = 1 THEN texts[1]
    ELSE texts[1] \o NL \o join(Tail(texts))

\* s.repeat(n)
RECURSIVE repeat(_, _)
repeat(s, n) ==
    IF n = 0 THEN ""
    ELSE IF n % 2 = 0 THEN repeat(s \o s, n \div 2)
    ELSE s \o repeat(s, n - 1)

\* '' + undefined, what fs.writeFileSync(file) wrote before Node 14
UndefinedText == "undefined"

----------------------------------------------------------------------------
(* Filesystem                                                              *)

Put(f, k, v) == [x \in (DOMAIN f) \cup {k} |-> IF x = k THEN v ELSE f[x]]
Del(f, k) == [x \in (DOMAIN f) \ {k} |-> f[x]]

existsFile(d, p) == p \in DOMAIN d

\* content of the file at path p ("" when there is none)
Content(d, ino, p) == IF p \in DOMAIN d THEN ino[d[p]] ELSE ""

\* the smallest inode number not in use
FreshIno(ino) == CHOOSE n \in 1..(Cardinality(DOMAIN ino) + 1) :
                    /\ n \notin DOMAIN ino
                    /\ \A m \in 1..(n - 1) : m \in DOMAIN ino

\* n zero bytes
RECURSIVE hole(_)
hole(n) == IF n <= 0 THEN "" ELSE NUL \o hole(n - 1)

\* write(fd, data) at offset pos (0-based) of content c; a write of zero bytes
\* leaves the file as it is, also past its end
WriteAt(c, pos, data) ==
    IF data = "" THEN c
    ELSE SubSeq(c, 1, Min(pos, Len(c))) \o hole(pos - Len(c)) \o data
            \o SubSeq(c, pos + Len(data) + 1, Len(c))

\* writeFileSync opened without O_TRUNC: bytes past the written data survive
writeFileSyncNoTrunc(d, ino, p, data) ==
    IF p \in DOMAIN d
    THEN <<d, [ino EXCEPT ![d[p]] = data \o SubSeq(@, Len(data) + 1, Len(@))]>>
    ELSE LET n == FreshIno(ino) IN <<Put(d, p, n), Put(ino, n, data)>>

\* fs.writeFileSync(path, data): open with O_CREAT | O_TRUNC, write. <<dir, inodes>>
writeFileSync(d, ino, p, data) ==
    IF p \in DOMAIN d
    THEN <<d, [ino EXCEPT ![d[p]] = data]>>
    ELSE LET n == FreshIno(ino) IN <<Put(d, p, n), Put(ino, n, data)>>

\* appendFileSync that replaces the content, as writeFileSync does
appendFileSyncOverwrites(d, ino, p, data) ==
    IF p \in DOMAIN d
    THEN <<d, [ino EXCEPT ![d[p]] = data]>>
    ELSE LET n == FreshIno(ino) IN <<Put(d, p, n), Put(ino, n, data)>>

\* fs.appendFileSync(path, data): open with O_CREAT | O_APPEND, write
appendFileSync(d, ino, p, data) ==
    IF p \in DOMAIN d
    THEN <<d, [ino EXCEPT ![d[p]] = @ \o data]>>
    ELSE LET n == FreshIno(ino) IN <<Put(d, p, n), Put(ino, n, data)>>

\* inodes with neither a name nor an open descriptor are freed
Collect(d, ino, rs) ==
    LET used == { d[p] : p \in DOMAIN d }
                \cup { rs[i].rfd : i \in 1..Len(rs) }
                \cup { rs[i].wfd : i \in 1..Len(rs) }
    IN  [n \in (DOMAIN ino) \cap used |-> ino[n]]

----------------------------------------------------------------------------
(* Console Sink                                                            *)

Msg(level, what) == [level |-> level, what |-> what]

\* an error report that never reaches the console
errorSilent(what) == <<>>

\* an error report printed twice
errorTwice(what) == <<Msg("ERROR", what), Msg("ERROR", what)>>

\* error(message): one ERROR line on stdout
error(what) == <<Msg("ERROR", what)>>


----------------------------------------------------------------------------
(* Registry state                                                          *)

DefaultMaxLength == 5000

KnownBehaviours == { "stop", "ingore", "split", "rewrite", "continue" }

NormPaths == { replaceSlashes(f) : f \in FileArgs }

NoLast ==
    [ op |-> "none", alias |-> "", text |-> "", idx |-> 0, beh |-> "",
      over |-> FALSE, threw |-> FALSE, path |-> "", orig |-> "",
      chunks |-> 0, alone |-> FALSE, synced |-> FALSE, maxLength |-> 0,
      tracked |-> 0, line |-> FALSE, existed |-> FALSE ]

\* the main thread is in the event loop, between two callbacks
NoPc == [todo |-> <<>>, last |-> NoLast, out |-> <<>>, logs |-> <<>>]

RECURSIVE MkDisk(_, _)
MkDisk(P, c) ==
    IF P = {} THEN << <<>>, <<>> >>
    ELSE LET p == CHOOSE q \in P : TRUE
             rest == MkDisk(P \ {p}, c)
         IN  writeFileSync(rest[1], rest[2], p, c[p])

Init ==
    /\ env \in [platform : {"win32", "posix"}, coerce : BOOLEAN,
                 maxLength : MaxLengthArgs, behaviour : BehaviourArgs,
                 budget : {MaxCalls}]
    /\ \E P \in {{}, NormPaths} : \E t \in InitContents :
          /\ dir = MkDisk(P, [p \in P |-> t])[1]
          /\ inodes = MkDisk(P, [p \in P |-> t])[2]
    /\ logs = <<>>
    /\ rots = <<>>
    /\ out = <<>>
    /\ last = NoLast
    /\ calls = 0
    /\ crashed = FALSE
    /\ pc = NoPc

\* this.logs.find(log => log.alias === alias): index of the first match, 0 when none
find(alias) ==
    LET hits == { i \in 1..Len(logs) : logs[i].alias = alias }
    IN  IF hits = {} THEN 0 ELSE CHOOSE i \in hits : \A j \in hits : i <= j

\* an API call made while rotations are in flight interleaves with them
Disturb(rs) == [i \in 1..Len(rs) |-> [rs[i] EXCEPT !.alone = FALSE]]

\* fs.existsSync(projectDir + file): projectDir ends in a backslash, which only
\* Windows reads as a separator
existsSync(path) == env.platform = "win32" /\ existsFile(dir, path)

\* JavaScript runs on one thread: a call or a callback starts only when the code
\* that ran before has returned
Idle == ~crashed /\ pc = NoPc

\* a call of the registry's API by the program using it
Call == Idle /\ calls < env.budget

\* the synchronous code returns: what it did to the registry and the console
Return(here, printed, registry) ==
    /\ calls' = calls + 1
    /\ last' = here
    /\ out' = printed
    /\ logs' = registry
    /\ pc' = NoPc

\* a system call the synchronous code has still to make: the write of data through
\* a descriptor just opened (at the end of the file when opened for appending, at
\* its start otherwise), or the second or third call of the 'close' handler of
\* rotation r
Request(op, fd, data, append, r) ==
    [op |-> op, fd |-> fd, data |-> data, append |-> append, r |-> r]

\* the synchronous code has made a system call and has more to make: the threads
\* of the pool run on before it makes the next one
Suspend(todo, here, printed, registry) ==
    /\ pc' = [todo |-> todo, last |-> here, out |-> printed, logs |-> registry]
    /\ UNCHANGED <<calls, last, out, logs>>

----------------------------------------------------------------------------
(* Fama.addLog                                                             *)

addLog(file, alias, maxLengthArg, behaviourArg) ==
    LET path == replaceSlashes(file)
        maxLength == IF maxLengthArg = Undefined THEN DefaultMaxLength
                     ELSE maxLengthArg[1]
        given == IF behaviourArg = "undefined" THEN "stop" ELSE behaviourArg
        exists == existsSync(path)
        opened == writeFileSync(dir, inodes, path, "")
        length == IF exists THEN Len(Content(dir, inodes, path)) ELSE 0
        valid == given \in KnownBehaviours
        behaviour == IF valid THEN given ELSE "stop"
        printed == IF valid THEN <<>> ELSE <<Msg("WARNING", "behaviour")>>
        pushed == Append(logs, [path |-> path, alias |-> alias,
                                length |-> length, maxLength |-> maxLength,
                                behaviour |-> behaviour])
        here == [NoLast EXCEPT !.op = "addLog", !.alias = alias, !.path = path,
                               !.beh = behaviourArg, !.maxLength = maxLength,
                               !.existed = existsFile(dir, path),
                               !.orig = Content(dir, inodes, path)]
    IN  /\ Call
        /\ rots' = Disturb(rots)
        /\ UNCHANGED <<env, crashed>>
        /\ IF ~exists /\ ~env.coerce
           THEN \* fs.writeFileSync(file) throws on the missing data; caught
                /\ Return([here EXCEPT !.threw = TRUE], error("create"), logs)
                /\ UNCHANGED <<dir, inodes>>
           ELSE IF exists
           THEN \* fs.statSync
                /\ Return([here EXCEPT !.idx = Len(logs) + 1], printed, pushed)
                /\ UNCHANGED <<dir, inodes>>
           ELSE \* fs.writeFileSync(file) opens the file, then writes "undefined"
                /\ dir' = opened[1]
                /\ inodes' = opened[2]
                /\ Suspend(<<Request("write", opened[1][path], UndefinedText, FALSE, 0)>>,
                           [here EXCEPT !.idx = Len(logs) + 1], printed, pushed)

----------------------------------------------------------------------------
(* Fama.writeLog, Fama.clearLog, Fama.removeLog                            *)

writeLog(alias, text) ==
    LET i == find(alias)
        opened == writeFileSync(dir, inodes, logs[i].path, "")
        here == [NoLast EXCEPT !.op = "writeLog", !.alias = alias, !.text = text,
                               !.idx = i]
        set == [logs EXCEPT ![i].length = Len(text)]
    IN  /\ Call
        /\ rots' = Disturb(rots)
        /\ UNCHANGED <<env, crashed>>
        /\ IF i = 0
           THEN /\ Return(here, error("write"), logs)
                /\ UNCHANGED <<dir, inodes>>
           ELSE \* fs.writeFileSync(log.path, text) opens the file, which empties
                \* it, then writes the text if there is any
                /\ dir' = opened[1]
                /\ inodes' = opened[2]
                /\ IF text = ""
                   THEN Return(here, <<>>, set)
                   ELSE Suspend(<<Request("write", opened[1][logs[i].path], text,
                                          FALSE, 0)>>,
                                here, <<>>, set)

clearLog(alias) ==
    LET i == find(alias)
        w == writeFileSync(dir, inodes, logs[i].path, "")
        here == [NoLast EXCEPT !.op = "clearLog", !.alias = alias, !.idx = i,
                               !.tracked = IF i = 0 THEN 0 ELSE logs[i].length,
                               !.maxLength = IF i = 0 THEN 0 ELSE logs[i].maxLength,
                               !.beh = IF i = 0 THEN "" ELSE logs[i].behaviour]
    IN  /\ Call
        /\ rots' = Disturb(rots)
        /\ UNCHANGED <<env, crashed>>
        /\ IF i = 0
           THEN /\ Return(here, error("clear"), logs)
                /\ UNCHANGED <<dir, inodes>>
           ELSE /\ dir' = w[1]
                /\ inodes' = w[2]
                /\ Return(here, <<>>, [logs EXCEPT ![i].length = 0])

\* this.logs.splice(index, 1)
splice(s, i) == SubSeq(s, 1, i - 1) \o SubSeq(s, i + 1, Len(s))

removeLog(alias) ==
    LET i == find(alias)
        here == [NoLast EXCEPT !.op = "removeLog", !.alias = alias, !.idx = i]
    IN  /\ Call
        /\ rots' = Disturb(rots)
        /\ UNCHANGED <<env, crashed>>
        /\ IF i = 0
           THEN /\ Return(here, error("delete"), logs)
                /\ UNCHANGED <<dir, inodes>>
           ELSE IF ~existsFile(dir, logs[i].path)
           THEN \* fs.unlinkSync throws ENOENT to the caller
                /\ Return([here EXCEPT !.threw = TRUE], <<>>, logs)
                /\ UNCHANGED <<dir, inodes>>
           ELSE /\ dir' = Del(dir, logs[i].path)
                /\ inodes' = Collect(Del(dir, logs[i].path), inodes, rots)
                /\ Return(here, <<>>, splice(logs, i))


----------------------------------------------------------------------------
(* overflow(log, text)                                                     *)

\* the index computed from the text alone
fileIndexOfText(length, textLength, maxLength) ==
    (textLength \div maxLength) + 1

\* ((log.length + text.length) / log.maxLength | 0) + 1
fileIndex(length, textLength, maxLength) ==
    ((length + textLength) \div maxLength) + 1

\* log.path.slice(0, fileExtensionIndex) + fileIndex + log.path.slice(fileExtensionIndex)
nextFilePath(path, index) ==
    LET fileExtensionIndex == lastIndexOf(path, ".")
    IN  slice(path, 0, fileExtensionIndex) \o toString(index)
            \o sliceFrom(path, fileExtensionIndex)

tempPath(path) == path \o ".temp"

\* the closure the 'rewrite' case creates, with its two streams. Each stream hands
\* its requests to the thread pool, which carries them out on its own, and learns
\* of the result in a callback on the main thread.
\* The read stream (rstate) asks for its file to be opened ("opening"); the pool
\* opens it ("opened") or fails to ("enoent"); the callback then asks for a read
\* ("reading"); the pool reads a chunk (rbuf, "data") or reads no bytes ("ended");
\* the callback delivers the chunk in a 'data' event and asks for the next read, or
\* runs the 'close' handler ("closing", then "closed").
\* The write stream (wstate) asks for its file to be opened ("opening"); the pool
\* creates or empties it ("opened"); the callback ("open") hands what was written
\* meanwhile to the pool. One write at a time is with the pool (wcur, while wbusy;
\* wdone once carried out, at the descriptor's offset wpos); wq holds the writes
\* made meanwhile.
newRotation(i, text) ==
    LET log == logs[i]
    IN  [ path |-> log.path, alias |-> log.alias, text |-> text,
          toDelete |-> (log.length + Len(text)) - log.maxLength, pass |-> FALSE,
          rstate |-> "opening", rfd |-> 0, rpos |-> 0, rbuf |-> "",
          wstate |-> "opening", wfd |-> 0, wpos |-> 0, wbusy |-> FALSE,
          wdone |-> FALSE, wcur |-> "", wq |-> <<>>,
          idx |-> i, orig |-> Content(dir, inodes, log.path), chunks |-> 0,
          alone |-> (rots = <<>>),
          synced |-> (existsFile(dir, log.path)
                      /\ log.length = Len(Content(dir, inodes, log.path))),
          maxLength |-> log.maxLength, tracked |-> log.length ]

\* info that prints nothing
infoSilent(alias) == <<>>

\* instance.info(`The ${log.alias} log file has reached its maximum size`)
info(alias) == <<Msg("INFO", "maximum size")>>

\* fs.appendFileSync(path, text), then log.length += text.length and the return
\* to the caller: a file that is there is appended to in one system call, a
\* missing one is created by the open before the write
appendTo(path, i, text, here) ==
    LET a == appendFileSync(dir, inodes, path, text)
        opened == appendFileSync(dir, inodes, path, "")
        added == [logs EXCEPT ![i].length = @ + Len(text)]
    IN  IF existsFile(dir, path) \/ text = ""
        THEN /\ dir' = a[1]
             /\ inodes' = a[2]
             /\ Return(here, <<>>, added)
        ELSE /\ dir' = opened[1]
             /\ inodes' = opened[2]
             /\ Suspend(<<Request("write", opened[1][path], text, TRUE, 0)>>,
                        here, <<>>, added)

overflow(i, text, here) ==
    LET log == logs[i]
        next == nextFilePath(log.path,
                             fileIndex(log.length, Len(text), log.maxLength))
    IN  CASE log.behaviour = "stop" ->
                /\ Return(here, info(log.alias), logs)
                /\ rots' = Disturb(rots)
                /\ UNCHANGED <<dir, inodes>>
          [] log.behaviour = "rewrite" ->
                /\ rots' = Append(Disturb(rots), newRotation(i, text))
                /\ Return(here, <<>>, logs)
                /\ UNCHANGED <<dir, inodes>>
          [] log.behaviour = "split" ->
                /\ appendTo(next, i, text, here)
                /\ rots' = Disturb(rots)
          [] log.behaviour = "continue" ->
                /\ appendTo(log.path, i, text, here)
                /\ rots' = Disturb(rots)
          [] OTHER ->
                /\ Return(here, <<>>, logs)
                /\ rots' = Disturb(rots)
                /\ UNCHANGED <<dir, inodes>>

----------------------------------------------------------------------------
(* Fama.appendLog, Fama.appendLineLog                                      *)

\* exceeds with >= for >
exceedsAtLimit(log, text) == log.length + Len(text) >= log.maxLength

\* log.length + text.length > log.maxLength
exceeds(log, text) == log.length + Len(text) > log.maxLength

append(alias, text, line) ==
    LET i == find(alias)
        here == [NoLast EXCEPT !.op = "appendLog", !.alias = alias, !.text = text,
                               !.idx = i, !.line = line]
        found == [here EXCEPT !.beh = logs[i].behaviour, !.path = logs[i].path,
                              !.maxLength = logs[i].maxLength,
                              !.tracked = logs[i].length]
    IN  /\ Call
        /\ UNCHANGED <<env, crashed>>
        /\ IF i = 0
           THEN /\ Return(here, error("append"), logs)
                /\ rots' = Disturb(rots)
                /\ UNCHANGED <<dir, inodes>>
           ELSE IF exceeds(logs[i], text)
           THEN overflow(i, text, [found EXCEPT !.over = TRUE])
           ELSE /\ appendTo(logs[i].path, i, text, found)
                /\ rots' = Disturb(rots)

appendLog(alias, text) == append(alias, text, FALSE)

appendLineLog(alias, text) == append(alias, text \o NL, TRUE)

----------------------------------------------------------------------------
(* The 'rewrite' rotation: the streams and their handlers                  *)

RECURSIVE SumLen(_, _)
SumLen(texts, i) == IF i = 0 THEN 0 ELSE Len(texts[i]) + SumLen(texts, i - 1)

\* onData with texts.slice(i) for texts.slice(i + 1): the line that crosses the
\* budget is kept
onDataKeepsLine(toDelete, pass, chunk) ==
    IF pass
    THEN [toDelete |-> toDelete, pass |-> TRUE, wrote |-> TRUE, written |-> chunk]
    ELSE IF toDelete > Len(chunk)
    THEN [toDelete |-> toDelete - Len(chunk), pass |-> FALSE, wrote |-> FALSE,
          written |-> ""]
    ELSE LET texts == split(chunk)
             n == Len(texts)
             left(i) == toDelete - SumLen(texts, i)
             cuts == { i \in 1..n : left(i) <= 0 /\ i < n }
         IN  IF cuts = {}
             THEN [toDelete |-> left(n), pass |-> TRUE, wrote |-> FALSE,
                   written |-> ""]
             ELSE LET i == CHOOSE k \in cuts : \A j \in cuts : k <= j
                  IN  [toDelete |-> left(i), pass |-> TRUE, wrote |-> TRUE,
                       written |-> join(SubSeq(texts, i, n))]

\* readStream.on('data', function(chunk) ...): the new toDelete and pass, whether
\* writeStream.write is called and what is handed to it
onData(toDelete, pass, chunk) ==
    IF pass
    THEN [toDelete |-> toDelete, pass |-> TRUE, wrote |-> TRUE, written |-> chunk]
    ELSE IF toDelete > Len(chunk)
    THEN [toDelete |-> toDelete - Len(chunk), pass |-> FALSE, wrote |-> FALSE,
          written |-> ""]
    ELSE LET texts == split(chunk)
             n == Len(texts)
             left(i) == toDelete - SumLen(texts, i)
             cuts == { i \in 1..n : left(i) <= 0 /\ i < n }
         IN  IF cuts = {}
             THEN [toDelete |-> left(n), pass |-> TRUE, wrote |-> FALSE,
                   written |-> ""]
             ELSE LET i == CHOOSE k \in cuts : \A j \in cuts : k <= j
                  IN  [toDelete |-> left(i), pass |-> TRUE, wrote |-> TRUE,
                       written |-> join(SubSeq(texts, i + 1, n))]

\* the buffers a stream has queued, written in one request
RECURSIVE concat(_)
concat(bufs) == IF bufs = <<>> THEN "" ELSE Head(bufs) \o concat(Tail(bufs))

\* writeStream.write(data): handed to the thread pool at once when the stream is
\* open and idle, queued otherwise
write(rot, data) ==
    IF rot.wstate = "open" /\ ~rot.wbusy
    THEN [rot EXCEPT !.wbusy = TRUE, !.wdone = FALSE, !.wcur = data]
    ELSE [rot EXCEPT !.wq = Append(@, data)]

\* the write stream takes up what was queued while it was opening or writing
flush(rot) ==
    IF rot.wq = <<>>
    THEN [rot EXCEPT !.wbusy = FALSE, !.wdone = FALSE, !.wcur = ""]
    ELSE [rot EXCEPT !.wbusy = TRUE, !.wdone = FALSE, !.wcur = concat(rot.wq),
                     !.wq = <<>>]

\* what is left of the rotations when the process dies: the requests with the
\* thread pool that change the disk, that is, the opens of write streams and the
\* writes not yet carried out
Residue(rs) ==
    LET left == SelectSeq(rs, LAMBDA rot : rot.wstate = "opening"
                                           \/ (rot.wbusy /\ ~rot.wdone))
    IN  [i \in 1..Len(left) |->
            [ path |-> left[i].path, alias |-> "", text |-> "",
              toDelete |-> 0, pass |-> FALSE,
              rstate |-> "dead", rfd |-> 0, rpos |-> 0, rbuf |-> "",
              wstate |-> IF left[i].wstate = "opening" THEN "opening" ELSE "dead",
              wfd |-> left[i].wfd, wpos |-> left[i].wpos,
              wbusy |-> left[i].wbusy, wdone |-> FALSE, wcur |-> left[i].wcur,
              wq |-> <<>>,
              idx |-> 0, orig |-> "", chunks |-> 0, alone |-> FALSE,
              synced |-> FALSE, maxLength |-> 0, tracked |-> 0 ]]

\* an exception nobody catches leaves a callback: the process dies
Throw(here, d) ==
    /\ crashed' = TRUE
    /\ pc' = NoPc
    /\ rots' = Residue(rots)
    /\ dir' = d
    /\ inodes' = Collect(d, inodes, Residue(rots))
    /\ last' = [here EXCEPT !.threw = TRUE]
    /\ out' = <<>>
    /\ UNCHANGED <<env, logs, calls>>

\* a step of the thread pool: the main thread is where it was
Pool(op, rot) ==
    /\ last' = [NoLast EXCEPT !.op = op, !.path = rot.path, !.alias = rot.alias]
    /\ out' = <<>>
    /\ UNCHANGED <<env, logs, calls, crashed, pc>>

\* a callback of a stream on the main thread that returns
Callback(here) ==
    /\ Idle
    /\ last' = here
    /\ out' = <<>>
    /\ UNCHANGED <<env, logs, calls, crashed, pc>>

\* fs.createReadStream(log.path): the thread pool carries out the open of the file
\* the path names at that moment, or finds no file there
openRead(r) ==
    LET rot == rots[r]
    IN  /\ ~crashed
        /\ rot.rstate = "opening"
        /\ Pool("openRead", rot)
        /\ rots' = IF existsFile(dir, rot.path)
                   THEN [rots EXCEPT ![r].rfd = dir[rot.path],
                                     ![r].rstate = "opened"]
                   ELSE [rots EXCEPT ![r].rstate = "enoent"]
        /\ UNCHANGED <<dir, inodes>>

\* the read stream learns how its open went: it asks for the first read, or emits
\* the 'error' event (ENOENT) nobody listens to
readStreamOpen(r) ==
    LET rot == rots[r]
        here == [NoLast EXCEPT !.op = "open", !.path = rot.path,
                               !.alias = rot.alias]
    IN  /\ Idle
        /\ rot.rstate \in {"opened", "enoent"}
        /\ IF rot.rstate = "enoent"
           THEN Throw(here, dir)
           ELSE /\ Callback(here)
                /\ rots' = [rots EXCEPT ![r].rstate = "reading"]
                /\ UNCHANGED <<dir, inodes>>

\* fs.createWriteStream(log.path + '.temp'): the thread pool creates or empties the
\* file; the request is with the pool from the moment overflow() made it and is
\* carried out even if the process dies first
openWrite(r) ==
    LET rot == rots[r]
        temp == tempPath(rot.path)
        w == writeFileSync(dir, inodes, temp, "")
        rest == splice(rots, r)
    IN  /\ rot.wstate = "opening"
        /\ Pool("openWrite", rot)
        /\ dir' = w[1]
        /\ IF crashed
           THEN /\ rots' = rest
                /\ inodes' = Collect(w[1], w[2], rest)
           ELSE /\ rots' = [rots EXCEPT ![r].wfd = w[1][temp],
                                        ![r].wstate = "opened"]
                /\ inodes' = w[2]

\* the write stream learns that its file is open and hands what was written
\* meanwhile to the thread pool, in one request
writeStreamOpen(r) ==
    LET rot == rots[r]
    IN  /\ rot.wstate = "opened"
        /\ Callback([NoLast EXCEPT !.op = "ready", !.path = rot.path,
                                   !.alias = rot.alias])
        /\ rots' = [rots EXCEPT ![r] = flush([rot EXCEPT !.wstate = "open"])]
        /\ UNCHANGED <<dir, inodes>>

\* the read the stream asked for is carried out: it takes the bytes the file holds
\* at that moment from the stream's position on, at most highWaterMark of them; a
\* read of no bytes ends the stream
readDone(r) ==
    LET rot == rots[r]
        k == Max(0, Min(highWaterMark, Len(inodes[rot.rfd]) - rot.rpos))
        chunk == Sub(inodes[rot.rfd], rot.rpos, rot.rpos + k)
    IN  /\ ~crashed
        /\ rot.rstate = "reading"
        /\ Pool("read", rot)
        /\ rots' = IF k = 0
                   THEN [rots EXCEPT ![r].rstate = "ended"]
                   ELSE [rots EXCEPT ![r].rstate = "data", ![r].rbuf = chunk,
                                     ![r].rpos = @ + k]
        /\ UNCHANGED <<dir, inodes>>

\* the 'data' event of the chunk read before: the handler runs and the stream asks
\* for the next read
dataEvent(r) ==
    LET rot == rots[r]
        h == onData(rot.toDelete, rot.pass, rot.rbuf)
        handled == [rot EXCEPT !.rstate = "reading", !.rbuf = "",
                               !.toDelete = h.toDelete, !.pass = h.pass,
                               !.chunks = @ + 1]
    IN  /\ rot.rstate = "data"
        /\ Callback([NoLast EXCEPT !.op = "data", !.path = rot.path,
                                   !.alias = rot.alias])
        /\ rots' = [rots EXCEPT ![r] = IF h.wrote THEN write(handled, h.written)
                                       ELSE handled]
        /\ UNCHANGED <<dir, inodes>>

\* what the 'close' handler of a rotation reports when it is over
closing(rot) ==
    [NoLast EXCEPT !.op = "close", !.path = rot.path, !.alias = rot.alias,
                   !.text = rot.text, !.idx = rot.idx]

\* readStream.on('close', () => ...) starts: fs.unlinkSync(log.path). The two
\* system calls that follow are made one after the other by the main thread,
\* while the thread pool goes on with the requests it holds
closeEvent(r) ==
    LET rot == rots[r]
    IN  /\ Idle
        /\ rot.rstate = "ended"
        /\ IF ~existsFile(dir, rot.path)
           THEN \* fs.unlinkSync(log.path) throws
                Throw(closing(rot), dir)
           ELSE /\ dir' = Del(dir, rot.path)
                /\ inodes' = Collect(Del(dir, rot.path), inodes,
                                     [rots EXCEPT ![r].rfd = 0])
                /\ rots' = [rots EXCEPT ![r].rstate = "closing", ![r].rfd = 0]
                /\ pc' = [NoPc EXCEPT !.todo = <<Request("link", 0, "", FALSE, r),
                                                  Request("unlink", 0, "", FALSE, r)>>,
                                      !.last = closing(rot), !.logs = logs]
                /\ UNCHANGED <<env, logs, calls, crashed, last, out>>

\* the handler goes on: fs.linkSync(log.path + '.temp', log.path)
closeLink ==
    LET req == Head(pc.todo)
        rot == rots[req.r]
        temp == tempPath(rot.path)
    IN  /\ ~crashed
        /\ pc.todo # <<>>
        /\ req.op = "link"
        /\ IF ~existsFile(dir, temp)
           THEN \* fs.linkSync throws
                Throw(pc.last, dir)
           ELSE /\ dir' = Put(dir, rot.path, dir[temp])
                /\ pc' = [pc EXCEPT !.todo = Tail(@)]
                /\ UNCHANGED <<env, inodes, logs, rots, calls, crashed, last, out>>

\* the handler ends: fs.unlinkSync(log.path + '.temp'), then writeStream.write(text)
\* and writeStream.close(), which only ask for the write and the close
closeUnlink ==
    LET req == Head(pc.todo)
        rot == rots[req.r]
        temp == tempPath(rot.path)
        closed == [rots EXCEPT ![req.r] = write([rot EXCEPT !.rstate = "closed"],
                                                rot.text)]
    IN  /\ ~crashed
        /\ pc.todo # <<>>
        /\ req.op = "unlink"
        /\ dir' = Del(dir, temp)
        /\ inodes' = Collect(Del(dir, temp), inodes, closed)
        /\ rots' = closed
        /\ last' = pc.last
        /\ out' = <<>>
        /\ pc' = NoPc
        /\ UNCHANGED <<env, logs, calls, crashed>>

\* fs.writeFileSync and fs.appendFileSync go on after their open: the write through
\* the descriptor, then the rest of the call, which touches no file
writeSync ==
    LET req == Head(pc.todo)
    IN  /\ ~crashed
        /\ pc.todo # <<>>
        /\ req.op = "write"
        /\ inodes' = [inodes EXCEPT ![req.fd] = IF req.append THEN @ \o req.data
                                                 ELSE WriteAt(@, 0, req.data)]
        /\ Return(pc.last, pc.out, pc.logs)
        /\ UNCHANGED <<env, dir, rots, crashed>>

\* the write the stream asked for is carried out at the descriptor's offset
writeDone(r) ==
    LET rot == rots[r]
        written == [inodes EXCEPT ![rot.wfd] = WriteAt(@, rot.wpos, rot.wcur)]
        rest == splice(rots, r)
    IN  /\ rot.wbusy
        /\ ~rot.wdone
        /\ Pool("write", rot)
        /\ UNCHANGED dir
        /\ IF crashed
           THEN /\ rots' = rest
                /\ inodes' = Collect(dir, written, rest)
           ELSE /\ rots' = [rots EXCEPT ![r].wdone = TRUE,
                                        ![r].wpos = @ + Len(rot.wcur)]
                /\ inodes' = written

\* the write stream learns that its write is done: it takes up what was queued, or,
\* when close() was called and nothing is left, closes: the rotation is complete
writeCallback(r) ==
    LET rot == rots[r]
        rest == splice(rots, r)
        here == [NoLast EXCEPT !.path = rot.path, !.alias = rot.alias]
    IN  /\ rot.wbusy
        /\ rot.wdone
        /\ IF rot.wq = <<>> /\ rot.rstate = "closed"
           THEN /\ Callback([here EXCEPT !.op = "finish", !.text = rot.text,
                               !.idx = rot.idx, !.orig = rot.orig,
                               !.chunks = rot.chunks, !.alone = rot.alone,
                               !.synced = rot.synced, !.maxLength = rot.maxLength,
                               !.tracked = rot.tracked, !.beh = "rewrite"])
                /\ rots' = rest
                /\ inodes' = Collect(dir, inodes, rest)
           ELSE /\ Callback([here EXCEPT !.op = "written"])
                /\ rots' = [rots EXCEPT ![r] = flush(rot)]
                /\ UNCHANGED inodes
        /\ UNCHANGED dir

\* the console methods called by the program itself
Methods == { "print", "printf", "warn", "error", "debug", "info" }

\* the level a console method prints in front of its message
Level(method) ==
    CASE method = "warn" -> "WARNING"
      [] method = "error" -> "ERROR"
      [] method = "debug" -> "DEBUG"
      [] method = "info" -> "INFO"
      [] OTHER -> ""

\* print, printf, warn, error, debug, info: process.stdout.write and nothing else
console(method, message) ==
    /\ Call
    /\ Return([NoLast EXCEPT !.op = method], <<Msg(Level(method), message)>>, logs)
    /\ UNCHANGED <<env, dir, inodes, rots, crashed>>

----------------------------------------------------------------------------

Next ==
    \/ \E f \in FileArgs, a \in Aliases : addLog(f, a, env.maxLength, env.behaviour)
    \/ \E a \in Aliases, t \in WriteTexts : writeLog(a, t)
    \/ \E a \in Aliases, t \in Texts : appendLog(a, t)
    \/ \E a \in Aliases : appendLineLog(a, "a")
    \/ \E a \in Aliases : clearLog(a)
    \/ \E a \in Aliases : removeLog(a)
    \/ \E m \in Methods : console(m, "message")
    \/ writeSync
    \/ \E r \in 1..Len(rots) : openRead(r)
    \/ \E r \in 1..Len(rots) : readStreamOpen(r)
    \/ \E r \in 1..Len(rots) : openWrite(r)
    \/ \E r \in 1..Len(rots) : writeStreamOpen(r)
    \/ \E r \in 1..Len(rots) : readDone(r)
    \/ \E r \in 1..Len(rots) : dataEvent(r)
    \/ \E r \in 1..Len(rots) : closeEvent(r)
    \/ closeLink
    \/ closeUnlink
    \/ \E r \in 1..Len(rots) : writeDone(r)
    \/ \E r \in 1..Len(rots) : writeCallback(r)

Spec == Init /\ [][Next]_vars

\* A program that registers logs under shared aliases and paths, appends to them
\* and removes them: a Windows host, the default maxLength, continue logs.
InitShared ==
    /\ env = [platform |-> "win32", coerce |-> TRUE, maxLength |-> Undefined,
              behaviour |-> "continue", budget |-> MaxSharedCalls]
    /\ \E P \in {{}, NormPaths} : \E t \in InitContents :
          /\ dir = MkDisk(P, [p \in P |-> t])[1]
          /\ inodes = MkDisk(P, [p \in P |-> t])[2]
    /\ logs = <<>>
    /\ rots = <<>>
    /\ out = <<>>
    /\ last = NoLast
    /\ calls = 0
    /\ crashed = FALSE
    /\ pc = NoPc

NextShared ==
    \/ \E f \in FileArgs, a \in Aliases : addLog(f, a, env.maxLength, env.behaviour)
    \/ \E a \in Aliases : appendLog(a, "a")
    \/ \E a \in Aliases : removeLog(a)
    \/ writeSync

SpecShared == InitShared /\ [][NextShared]_vars

\* A program that registers one rewrite log on an existing file that fits its
\* maxLength, then only appends texts that fit maxLength, each append issued after
\* the rotation of the previous one has completed.
OneRewriteLog(budget, MaxLengths, Contents) ==
    /\ \E m \in MaxLengths : \E t \in Contents :
          /\ Len(t) <= m[1]
          /\ env = [platform |-> "win32", coerce |-> FALSE, maxLength |-> m,
                    behaviour |-> "rewrite", budget |-> budget]
          /\ dir = MkDisk(NormPaths, [p \in NormPaths |-> t])[1]
          /\ inodes = MkDisk(NormPaths, [p \in NormPaths |-> t])[2]
    /\ logs = <<>>
    /\ rots = <<>>
    /\ out = <<>>
    /\ last = NoLast
    /\ calls = 0
    /\ crashed = FALSE
    /\ pc = NoPc

InitRewrite == OneRewriteLog(MaxSerialCalls, MaxLengthArgs \ {Undefined}, InitContents)

InitRace == OneRewriteLog(MaxRaceCalls, MaxLengthArgs \ {Undefined}, InitContents)

NextRewrite ==
    \/ \E f \in FileArgs :
          logs = <<>> /\ addLog(f, "x", env.maxLength, env.behaviour)
    \/ \E t \in Texts : rots = <<>> /\ appendLog("x", t)
    \/ rots = <<>> /\ appendLineLog("x", "a")
    \/ \E r \in 1..Len(rots) : openRead(r)
    \/ \E r \in 1..Len(rots) : readStreamOpen(r)
    \/ \E r \in 1..Len(rots) : openWrite(r)
    \/ \E r \in 1..Len(rots) : writeStreamOpen(r)
    \/ \E r \in 1..Len(rots) : readDone(r)
    \/ \E r \in 1..Len(rots) : dataEvent(r)
    \/ \E r \in 1..Len(rots) : closeEvent(r)
    \/ closeLink
    \/ closeUnlink
    \/ \E r \in 1..Len(rots) : writeDone(r)
    \/ \E r \in 1..Len(rots) : writeCallback(r)

SpecRewrite == InitRewrite /\ [][NextRewrite]_vars

\* a line that fills one chunk of the read stream
LongLine == repeat("a", highWaterMark)

\* content of the long-file scenario's file before the process starts: the short
\* contents, and files of two chunks: a line of 64 KiB followed by "cd\n", a line
\* of 64 KiB less one byte followed by "\ncd", and "a\n" followed by a line that
\* runs into the second chunk
ChunkContents ==
    InitContents \cup { LongLine \o "cd\n",
                        SubSeq(LongLine, 2, highWaterMark) \o "\ncd",
                        "a\n" \o SubSeq(LongLine, 3, highWaterMark) \o "cd\n" }

\* its maxLength arguments: 3, and the size of the two-chunk files
ChunkMaxLengths == { <<3>>, <<highWaterMark + 3>>, <<highWaterMark + 2>> }

\* The same program on a file that may be longer than one chunk.
InitChunks == OneRewriteLog(MaxChunkCalls, ChunkMaxLengths, ChunkContents)

SpecChunks == InitChunks /\ [][NextRewrite]_vars

\* The same program when it does not wait: appends are issued at any moment of
\* the rotations in flight.
NextRace ==
    \/ \E f \in FileArgs :
          logs = <<>> /\ addLog(f, "x", env.maxLength, env.behaviour)
    \/ \E t \in Texts : appendLog("x", t)
    \/ \E r \in 1..Len(rots) : openRead(r)
    \/ \E r \in 1..Len(rots) : readStreamOpen(r)
    \/ \E r \in 1..Len(rots) : openWrite(r)
    \/ \E r \in 1..Len(rots) : writeStreamOpen(r)
    \/ \E r \in 1..Len(rots) : readDone(r)
    \/ \E r \in 1..Len(rots) : dataEvent(r)
    \/ \E r \in 1..Len(rots) : closeEvent(r)
    \/ closeLink
    \/ closeUnlink
    \/ \E r \in 1..Len(rots) : writeDone(r)
    \/ \E r \in 1..Len(rots) : writeCallback(r)

SpecRace == InitRace /\ [][NextRace]_vars

\* The same program when it also overwrites the log at any moment of a rotation:
\* appends wait for the rotation in flight, writeLog does not.
NextOverwrite ==
    \/ \E f \in FileArgs :
          logs = <<>> /\ addLog(f, "x", env.maxLength, env.behaviour)
    \/ \E t \in Texts : rots = <<>> /\ appendLog("x", t)
    \/ \E t \in Texts : writeLog("x", t)
    \/ writeSync
    \/ \E r \in 1..Len(rots) : openRead(r)
    \/ \E r \in 1..Len(rots) : readStreamOpen(r)
    \/ \E r \in 1..Len(rots) : openWrite(r)
    \/ \E r \in 1..Len(rots) : writeStreamOpen(r)
    \/ \E r \in 1..Len(rots) : readDone(r)
    \/ \E r \in 1..Len(rots) : dataEvent(r)
    \/ \E r \in 1..Len(rots) : closeEvent(r)
    \/ closeLink
    \/ closeUnlink
    \/ \E r \in 1..Len(rots) : writeDone(r)
    \/ \E r \in 1..Len(rots) : writeCallback(r)

SpecOverwrite == InitRace /\ [][NextOverwrite]_vars

\* behaviour arguments that addLog stores as stop
StopArgs == { b \in BehaviourArgs :
                (IF b = "undefined" THEN "stop" ELSE b) \notin KnownBehaviours \ {"stop"} }

\* A program that registers one log whose stored behaviour is stop, on a path with
\* no file or with a file that fits maxLength, then appends to it and clears it.
InitStop ==
    /\ \E m \in MaxLengthArgs \ {Undefined} : \E b \in StopArgs :
        \E P \in {{}, NormPaths} : \E t \in InitContents :
          /\ Len(t) <= m[1]
          /\ env \in [platform : {"win32", "posix"}, coerce : BOOLEAN,
                       maxLength : {m}, behaviour : {b}, budget : {MaxSerialCalls}]
          /\ dir = MkDisk(P, [p \in P |-> t])[1]
          /\ inodes = MkDisk(P, [p \in P |-> t])[2]
    /\ logs = <<>>
    /\ rots = <<>>
    /\ out = <<>>
    /\ last = NoLast
    /\ calls = 0
    /\ crashed = FALSE
    /\ pc = NoPc

NextStop ==
    \/ \E f \in FileArgs :
          logs = <<>> /\ addLog(f, "x", env.maxLength, env.behaviour)
    \/ \E t \in Texts : appendLog("x", t)
    \/ \E t \in Texts : appendLineLog("x", t)
    \/ clearLog("x")
    \/ writeSync

SpecStop == InitStop /\ [][NextStop]_vars

\* texts appended to the split log: those of Texts and the empty string
SplitTexts == Texts \cup { "" }

\* A program that registers one split or continue log, then appends to it,
\* overwrites it and clears it.
InitSplit ==
    /\ env \in [platform : {"win32", "posix"}, coerce : BOOLEAN,
                 maxLength : MaxLengthArgs \ {Undefined},
                 behaviour : {"split", "continue"},
                 budget : {MaxSerialCalls}]
    /\ \E P \in {{}, NormPaths} : \E t \in InitContents :
          /\ dir = MkDisk(P, [p \in P |-> t])[1]
          /\ inodes = MkDisk(P, [p \in P |-> t])[2]
    /\ logs = <<>>
    /\ rots = <<>>
    /\ out = <<>>
    /\ last = NoLast
    /\ calls = 0
    /\ crashed = FALSE
    /\ pc = NoPc

NextSplit ==
    \/ \E f \in FileArgs :
          logs = <<>> /\ addLog(f, "x", env.maxLength, env.behaviour)
    \/ \E t \in SplitTexts : appendLog("x", t)
    \/ \E t \in WriteTexts : writeLog("x", t)
    \/ clearLog("x")
    \/ writeSync

SpecSplit == InitSplit /\ [][NextSplit]_vars


----------------------------------------------------------------------------
(* Properties                                                              *)

FileAt(p) == Content(dir, inodes, p)

\* a step in which the call op(alias, ...), resolving to descriptor find(alias),
\* returns
Calls(op, a) == calls' = calls + 1 /\ last'.op = op /\ last'.alias = a

\* a step in which the call op(alias, ...) makes its first system call and has
\* another one to make before it returns
Enters(op, a) ==
    pc = NoPc /\ pc'.todo # <<>> /\ pc'.last.op = op /\ pc'.last.alias = a

\* every path other than p names the same file with the same content as before
OtherFilesKept(p) ==
    \A q \in ((DOMAIN dir) \cup (DOMAIN dir')) \ {p} :
        /\ q \in DOMAIN dir
        /\ q \in DOMAIN dir'
        /\ Content(dir', inodes', q) = Content(dir, inodes, q)

PathsOnce == \A i, j \in 1..Len(logs) : i # j => logs[i].path # logs[j].path

\* a rotation has just completed that no other call or rotation interleaved with
RotationDone == pc = NoPc /\ last.op = "finish" /\ ~last.threw /\ last.alone

\* C1: whenever no rotation is in flight and each path is registered once, every
\* descriptor's tracked length equals the byte size of the file at its path.
C1_LengthEqualsFileSize ==
    (rots = <<>> /\ Idle /\ PathsOnce) =>
        \A i \in 1..Len(logs) :
            /\ existsFile(dir, logs[i].path)
            /\ logs[i].length = Len(FileAt(logs[i].path))

\* C2: while a rotation for an alias is in flight, a further appendLog on that
\* alias neither touches any file nor starts a second rotation.
C2_AppendWaitsForRotation ==
    [][ \A a \in Aliases :
          (Calls("appendLog", a) /\ \E r \in 1..Len(rots) : rots[r].alias = a)
          => (dir' = dir /\ inodes' = inodes /\ Len(rots') = Len(rots)) ]_vars

\* C3: when a rotation has completed, the descriptor's length is the byte size of
\* the final file content.
C3_RewriteUpdatesLength ==
    RotationDone => logs[last.idx].length = Len(FileAt(last.path))

\* C4: a rotation that started with the tracked length equal to the file size and
\* a text no longer than maxLength leaves a file of at most maxLength bytes: at
\* least toDelete = length + len(text) - maxLength bytes were removed from the front.
C4_RewriteFitsMaxLength ==
    (RotationDone /\ last.synced /\ Len(last.text) <= last.maxLength) =>
        /\ Len(FileAt(last.path)) <= last.maxLength
        /\ (Len(last.orig) + Len(last.text)) - Len(FileAt(last.path))
              >= (last.tracked + Len(last.text)) - last.maxLength

\* a synced rotation of a file longer than one chunk has completed: it dropped
\* bytes from the front and kept the rest of the file
C4_Witness ==
    /\ RotationDone /\ last.synced /\ Len(last.text) <= last.maxLength
    /\ last.chunks >= 2
    /\ Len(last.orig) > highWaterMark
    /\ Len(FileAt(last.path)) > Len(last.text)
    /\ Len(FileAt(last.path)) < Len(last.orig) + Len(last.text)

\* C5: after a rotation the file is S followed by text, where S is a suffix of the
\* old content that is empty, the whole content, or starts right after a newline.
\* (The lengths are compared first: only the k that passes can make the contents
\* equal.)
C5_RewriteDropsWholeLines ==
    RotationDone =>
        \E k \in 0..Len(last.orig) :
            /\ Len(FileAt(last.path)) = (Len(last.orig) - k) + Len(last.text)
            /\ FileAt(last.path) = SubSeq(last.orig, k + 1, Len(last.orig)) \o last.text
            /\ (k = 0 \/ k = Len(last.orig) \/ At(last.orig, k) = NL)

\* C6: an appendLog whose text fits (length + len(text) <= maxLength) makes the file
\* the old content followed by text and adds len(text) to length; no other
\* descriptor and no other file changes and the overflow engine is not invoked.
\* When the file is missing, the call first creates it empty, changing nothing else.
C6_AppendWithinLimit ==
    [][ \A a \in Aliases :
          /\ (/\ Calls("appendLog", a)
               /\ find(a) # 0
               /\ logs[find(a)].length + Len(last'.text) <= logs[find(a)].maxLength)
              => LET i == find(a)
                     log == logs[i]
                     text == last'.text
                 IN  /\ existsFile(dir', log.path)
                     /\ Content(dir', inodes', log.path) = FileAt(log.path) \o text
                     /\ logs' = [logs EXCEPT ![i].length = log.length + Len(text)]
                     /\ OtherFilesKept(log.path)
                     /\ Len(rots') = Len(rots)
                     /\ out' = <<>>
          /\ (/\ Enters("appendLog", a)
               /\ find(a) # 0
               /\ logs[find(a)].length + Len(pc'.last.text)
                      <= logs[find(a)].maxLength)
              => LET log == logs[find(a)]
                 IN  /\ ~existsFile(dir, log.path)
                     /\ existsFile(dir', log.path)
                     /\ Content(dir', inodes', log.path) = ""
                     /\ logs' = logs
                     /\ OtherFilesKept(log.path)
                     /\ Len(rots') = Len(rots) ]_vars

\* a fitting append to a non-empty file, with another file on the disk
C6_Witness ==
    /\ last.op = "appendLog" /\ last.idx # 0 /\ ~last.over
    /\ Cardinality(DOMAIN dir) >= 2
    /\ Len(last.text) > 0
    /\ Len(FileAt(last.path)) > Len(last.text)

\* C7: for a stop log, an appendLog with length + len(text) > maxLength writes
\* nothing, leaves length unchanged and emits exactly one informational message.
C7_StopWritesNothing ==
    [][ \A a \in Aliases :
          (/\ Calls("appendLog", a)
           /\ find(a) # 0
           /\ logs[find(a)].behaviour = "stop"
           /\ logs[find(a)].length + Len(last'.text) > logs[find(a)].maxLength)
          => /\ dir' = dir
             /\ inodes' = inodes
             /\ logs' = logs
             /\ Len(rots') = Len(rots)
             /\ out' = <<Msg("INFO", "maximum size")>> ]_vars

\* a stop log has rejected an append while holding content
C7_Witness ==
    /\ last.op = "appendLog" /\ last.idx # 0 /\ last.over /\ last.beh = "stop"
    /\ Len(FileAt(last.path)) > 0

\* C8: for a log registered with behaviour 'ignore', an appendLog that would exceed
\* maxLength writes nothing, leaves length unchanged and emits no message.
C8_IgnoreIsSilent ==
    [][ \A a \in Aliases :
          (/\ env.behaviour = "ignore"
           /\ Calls("appendLog", a)
           /\ find(a) # 0
           /\ logs[find(a)].length + Len(last'.text) > logs[find(a)].maxLength)
          => /\ dir' = dir
             /\ inodes' = inodes
             /\ logs' = logs
             /\ out' = <<>> ]_vars

FiveBehaviours == { "stop", "ignore", "split", "rewrite", "continue" }

\* C9: addLog stores each of stop, ignore, split, rewrite and continue unchanged and
\* without a warning; any other value gives one warning and the behaviour stop.
C9_AddLogBehaviour ==
    (pc = NoPc /\ last.op = "addLog" /\ last.idx # 0 /\ last.beh # "undefined") =>
        IF last.beh \in FiveBehaviours
        THEN logs[last.idx].behaviour = last.beh /\ out = <<>>
        ELSE logs[last.idx].behaviour = "stop" /\ out = <<Msg("WARNING", "behaviour")>>

\* the path with the index inserted before its extension; a path without a '.' has
\* an empty extension
BeforeExtension(path, index) ==
    LET dot == lastIndexOf(path, ".")
        at == IF dot = -1 THEN Len(path) ELSE dot
    IN  SubSeq(path, 1, at) \o toString(index) \o SubSeq(path, at + 1, Len(path))

\* C10: for a split log, an appendLog with length + len(text) > maxLength appends
\* text to the sibling whose name has floor((length + len(text)) / maxLength) + 1
\* before the extension, leaves the original file unchanged, adds len(text) to the
\* original descriptor's length and adds no descriptor.
C10_SplitSibling ==
    [][ \A a \in Aliases :
          (/\ Calls("appendLog", a)
           /\ find(a) # 0
           /\ logs[find(a)].behaviour = "split"
           /\ logs[find(a)].length + Len(last'.text) > logs[find(a)].maxLength)
          => LET i == find(a)
                 log == logs[i]
                 text == last'.text
                 index == ((log.length + Len(text)) \div log.maxLength) + 1
                 sibling == BeforeExtension(log.path, index)
             IN  /\ existsFile(dir', sibling)
                 /\ Content(dir', inodes', sibling) = FileAt(sibling) \o text
                 /\ OtherFilesKept(sibling)
                 /\ logs' = [logs EXCEPT ![i].length = log.length + Len(text)] ]_vars


\* C11: for a continue log every appendLog appends text to the original file and
\* adds len(text) to length, whatever maxLength is and also when length already
\* exceeds it. When the file is missing, the call first creates it empty, changing
\* nothing else.
C11_ContinueAlwaysAppends ==
    [][ \A a \in Aliases :
          /\ (/\ Calls("appendLog", a)
               /\ find(a) # 0
               /\ logs[find(a)].behaviour = "continue")
              => LET i == find(a)
                     log == logs[i]
                     text == last'.text
                 IN  /\ existsFile(dir', log.path)
                     /\ Content(dir', inodes', log.path) = FileAt(log.path) \o text
                     /\ logs' = [logs EXCEPT ![i].length = log.length + Len(text)]
                     /\ OtherFilesKept(log.path)
                     /\ out' = <<>>
          /\ (/\ Enters("appendLog", a)
               /\ find(a) # 0
               /\ logs[find(a)].behaviour = "continue")
              => LET log == logs[find(a)]
                 IN  /\ ~existsFile(dir, log.path)
                     /\ existsFile(dir', log.path)
                     /\ Content(dir', inodes', log.path) = ""
                     /\ logs' = logs
                     /\ OtherFilesKept(log.path) ]_vars

\* a continue log whose length was already past maxLength has appended
C11_Witness ==
    /\ last.op = "appendLog" /\ last.idx # 0 /\ last.over /\ last.beh = "continue"
    /\ last.tracked > last.maxLength
    /\ logs[last.idx].length = last.tracked + Len(last.text)
    /\ Len(FileAt(last.path)) > Len(last.text)


\* C12: when writeLog on a registered alias returns, the whole file content is text
\* and length is len(text), whatever the prior state, behaviour and maxLength, also
\* when len(text) > maxLength; the overflow engine is not invoked and nothing is
\* printed.
C12_WriteLogReplaces ==
    [][ \A a \in Aliases :
          (Calls("writeLog", a) /\ find(a) # 0)
          => LET i == find(a)
                 log == logs[i]
                 text == last'.text
             IN  /\ existsFile(dir', log.path)
                 /\ Content(dir', inodes', log.path) = text
                 /\ logs' = [logs EXCEPT ![i].length = Len(text)]
                 /\ OtherFilesKept(log.path)
                 /\ Len(rots') = Len(rots)
                 /\ out' = <<>> ]_vars

\* C13: clearLog on a registered alias leaves the log file empty and length 0,
\* whatever the prior state, also when length was above maxLength after split or
\* continue overflows.
C13_ClearLogEmpties ==
    (pc = NoPc /\ last.op = "clearLog" /\ last.idx # 0)
    => /\ existsFile(dir, logs[last.idx].path)
       /\ FileAt(logs[last.idx].path) = ""
       /\ logs[last.idx].length = 0

\* a split or continue log has been cleared whose length was above maxLength and was
\* neither a size registered by addLog nor one set by writeLog, so that an
\* overflowing append had raised it
C13_Witness ==
    /\ last.op = "clearLog" /\ last.idx # 0
    /\ last.beh \in {"split", "continue"}
    /\ last.tracked > last.maxLength
    /\ env.platform = "win32" /\ ~env.coerce
    /\ \A c \in InitContents \cup WriteTexts : last.tracked # Len(c)
    /\ logs[last.idx].length = 0
    /\ FileAt(logs[last.idx].path) = ""


\* C14: writeLog, appendLog, appendLineLog, clearLog and removeLog called with an
\* alias that matches no descriptor leave the registry and every file unchanged,
\* print exactly one error report and raise nothing.
C14_UnknownAlias ==
    [][ \A a \in Aliases :
          (/\ calls' = calls + 1
           /\ last'.op \in {"writeLog", "appendLog", "clearLog", "removeLog"}
           /\ last'.alias = a
           /\ find(a) = 0)
          => /\ logs' = logs
             /\ dir' = dir
             /\ inodes' = inodes
             /\ Len(rots') = Len(rots)
             /\ Len(out') = 1
             /\ out'[1].level = "ERROR"
             /\ ~last'.threw
             /\ ~crashed' ]_vars

\* an operation has named an alias missing from a non-empty registry over a
\* non-empty disk, and has been answered by an error report
C14_Witness ==
    /\ last.op \in {"writeLog", "appendLog", "clearLog", "removeLog"}
    /\ last.idx = 0
    /\ logs # <<>>
    /\ \A i \in 1..Len(logs) : logs[i].alias # last.alias
    /\ DOMAIN dir # {}
    /\ Len(out) = 1 /\ out[1].level = "ERROR"


\* descriptors registered under alias a
Sharing(a) == { j \in 1..Len(logs) : logs[j].alias = a }

\* C15: when several descriptors share an alias, writeLog, appendLog, appendLineLog
\* and clearLog change no descriptor but the earliest-registered one, and
\* removeLog deletes that descriptor's file and no other, removes that descriptor
\* and no other, and keeps the order of the rest, so that the next-registered
\* descriptor of the alias is the target from then on.
C15_SharedAlias ==
    [][ \A a \in Aliases :
          (/\ calls' = calls + 1
           /\ last'.alias = a
           /\ Cardinality(Sharing(a)) >= 2)
          => LET i == find(a)
                 next == CHOOSE j \in Sharing(a) \ {i} :
                             \A k \in Sharing(a) \ {i} : j <= k
             IN  /\ last'.op \in {"writeLog", "appendLog", "clearLog"}
                    => /\ Len(logs') = Len(logs)
                       /\ \A j \in 1..Len(logs) : j # i => logs'[j] = logs[j]
                 /\ last'.op = "removeLog"
                    => /\ ~last'.threw
                       /\ ~existsFile(dir', logs[i].path)
                       /\ OtherFilesKept(logs[i].path)
                       /\ logs' = splice(logs, i)
                       /\ find(a)' = next - 1
                       /\ logs'[find(a)'] = logs[next] ]_vars


\* C16: a successful addLog appends one descriptor whose length is the byte size of
\* its file right after registration: a file present before with N bytes keeps its
\* content and gives length N; a path without a file gets an empty file and length 0.
C16_AddLogLength ==
    [][ (/\ calls' = calls + 1
         /\ last'.op = "addLog"
         /\ last'.idx # 0)
        => LET path == last'.path
               log == logs'[Len(logs')]
           IN  /\ Len(logs') = Len(logs) + 1
               /\ SubSeq(logs', 1, Len(logs)) = logs
               /\ log.path = path
               /\ existsFile(dir', path)
               /\ log.length = Len(Content(dir', inodes', path))
               /\ IF last'.existed
                  THEN Content(dir', inodes', path) = last'.orig
                  ELSE Content(dir', inodes', path) = "" /\ log.length = 0 ]_vars


\* C17: when the existence check, the creation or the stat of addLog fails, exactly
\* one error is printed, nothing is raised to the caller and the registry is left as
\* it was, with no descriptor added.
C17_AddLogFailure ==
    [][ (/\ calls' = calls + 1
         /\ last'.op = "addLog"
         /\ ~existsSync(last'.path)
         /\ ~env.coerce)
        => /\ logs' = logs
           /\ Len(out') = 1
           /\ out'[1].level = "ERROR"
           /\ last'.idx = 0
           /\ ~crashed'
           /\ dir' = dir /\ inodes' = inodes ]_vars

\* an addLog has failed on a path whose file the existence check does not find, on
\* a disk that holds files, and has left one error report and no descriptor
C17_Witness ==
    /\ last.op = "addLog" /\ last.threw /\ last.idx = 0
    /\ ~existsSync(last.path)
    /\ existsFile(dir, last.path)
    /\ \A i \in 1..Len(logs) : logs[i].path # last.path
    /\ out = error("create")


\* C18: for a rewrite log registered with length <= maxLength, after any sequence
\* of appendLog and appendLineLog calls whose texts fit maxLength, each issued after
\* the previous rotation completed, the size of the log file never exceeds
\* maxLength.
C18_RewriteFileFits ==
    \A i \in 1..Len(logs) :
        (pc = NoPc /\ existsFile(dir, logs[i].path))
        => Len(FileAt(logs[i].path)) <= logs[i].maxLength


\* C19: for a log stored as stop and registered with length <= maxLength, after any
\* sequence of appendLog, appendLineLog and clearLog calls the tracked length and
\* the size of the log file are both at most maxLength.
C19_StopWithinLimit ==
    pc = NoPc =>
    \A i \in 1..Len(logs) :
        /\ logs[i].behaviour = "stop"
        /\ logs[i].length <= logs[i].maxLength
        /\ existsFile(dir, logs[i].path)
        /\ Len(FileAt(logs[i].path)) <= logs[i].maxLength


\* C20: for a split log, once an appendLog has overflowed, the next appendLog on the
\* alias, with no clearLog or writeLog in between, overflows too: its text goes to
\* the sibling file of an index that is at least 2 and not below the index of the
\* overflow before it, and the original file and every other file stay as they
\* were. Each such append being an overflow again, this holds for every later
\* appendLog until a clearLog or writeLog.
C20_SplitKeepsOverflowing ==
    [][ /\ (/\ last.op = "appendLog" /\ last.over /\ last.idx # 0
             /\ Calls("appendLog", last.alias)
             /\ find(last.alias) = last.idx
             /\ logs[last.idx].behaviour = "split")
            => LET log == logs[last.idx]
                   text == last'.text
                   index == fileIndex(log.length, Len(text), log.maxLength)
                   before == fileIndex(last.tracked, Len(last.text), last.maxLength)
                   sibling == nextFilePath(log.path, index)
               IN  /\ last'.over
                   /\ index >= 2
                   /\ index >= before
                   /\ sibling # log.path
                   /\ existsFile(dir', sibling)
                   /\ Content(dir', inodes', sibling) = FileAt(sibling) \o text
                   /\ OtherFilesKept(sibling)
                   /\ logs' = [logs EXCEPT ![last.idx].length = log.length + Len(text)]
        /\ (/\ last.op = "appendLog" /\ last.over /\ last.idx # 0
             /\ Enters("appendLog", last.alias)
             /\ find(last.alias) = last.idx
             /\ logs[last.idx].behaviour = "split")
            => LET log == logs[last.idx]
                   text == pc'.last.text
                   sibling == nextFilePath(log.path,
                                  fileIndex(log.length, Len(text), log.maxLength))
               IN  /\ sibling # log.path
                   /\ ~existsFile(dir, sibling)
                   /\ existsFile(dir', sibling)
                   /\ Content(dir', inodes', sibling) = ""
                   /\ OtherFilesKept(sibling)
                   /\ logs' = logs
      ]_vars

\* a split log whose length an overflowing append had raised above maxLength has
\* overflowed again, into a sibling of an index above 2
C20_Witness ==
    /\ last.op = "appendLog" /\ last.over /\ last.idx # 0 /\ last.beh = "split"
    /\ last.text # ""
    /\ last.tracked > last.maxLength
    /\ env.platform = "win32" /\ ~env.coerce
    /\ \A c \in InitContents \cup WriteTexts : last.tracked # Len(c)
    /\ fileIndex(last.tracked, Len(last.text), last.maxLength) > 2
    /\ existsFile(dir, nextFilePath(last.path,
                      fileIndex(last.tracked, Len(last.text), last.maxLength)))
    /\ existsFile(dir, last.path)

====
